---- MODULE Spec2Model ----
(***************************************************************************)
(* Model of code_extractor.py: the marker/fence scan that extracts fenced  *)
(* code blocks following **`path`:** marker lines from a Markdown text.    *)
(*                                                                         *)
(* The document is a sequence of one-character strings and every offset is *)
(* 0-based exactly as in the Python source; d[i+1] is Python's d[i].       *)
(* An iteration of the while loop of code_extractor is two steps: Search   *)
(* computes the locals of the body, then one action per branch the         *)
(* iteration can take does what that branch does.                          *)
(***************************************************************************)
EXTENDS Integers, Sequences, FiniteSets, TLC

VARIABLES doc, pc, current_pos, found_files_count, files, locals, log

vars == <<doc, pc, current_pos, found_files_count, files, locals, log>>

(***************************************************************************)
(* Characters and Python string primitives                                 *)
(***************************************************************************)
NL == "\n"
\* the backtick character (a string literal cannot hold one)
BT == "BACKTICK"
Whitespace == {" ", "\n", "\t"}
Slashes == {"/", "\\"}

SetMin(S) == CHOOSE x \in S : \A y \in S : x <= y
SetMax(S) == CHOOSE x \in S : \A y \in S : x >= y

\* d[i:i+len(s)] == s
SubAt(d, i, s) ==
    /\ i >= 0
    /\ i + Len(s) <= Len(d)
    /\ \A k \in 1..Len(s) : d[i + k] = s[k]

\* str.find(s, start): lowest index >= start where s occurs, else -1
RECURSIVE Find(_, _, _)
Find(d, s, start) ==
    IF start + Len(s) > Len(d) THEN -1
    ELSE IF SubAt(d, start, s) THEN start
    ELSE Find(d, s, start + 1)

\* d[a:b] for 0 <= a (b is clamped to len(d) as Python slicing does)
Slice(d, a, b) == SubSeq(d, a + 1, IF b > Len(d) THEN Len(d) ELSE b)

\* the first index from i on, going up, whose character is not in cs
RECURSIVE SkipLeft(_, _, _)
SkipLeft(s, cs, i) ==
    IF i <= Len(s) /\ s[i] \in cs THEN SkipLeft(s, cs, i + 1) ELSE i

\* the first index from j on, going down, whose character is not in cs
RECURSIVE SkipRight(_, _, _)
SkipRight(s, cs, j) ==
    IF j >= 1 /\ s[j] \in cs THEN SkipRight(s, cs, j - 1) ELSE j

\* str.strip(chars)
StripChars(s, cs) == SubSeq(s, SkipLeft(s, cs, 1), SkipRight(s, cs, Len(s)))

\* str.strip()
Strip(s) == StripChars(s, Whitespace)

\* str.startswith
StartsWith(s, p) == SubAt(s, 0, p)

Backticks == <<BT, BT, BT>>
Tildes == <<"~", "~", "~">>

(***************************************************************************)
(* FILENAME_MARKER_REGEX                                                   *)
(*   ^\s*\*\*\s*(?:.*?)`([^`]+)`(?:.*?)\s*:\*\*\s*$     (re.MULTILINE)     *)
(***************************************************************************)
Stars == <<"*", "*">>
\* mutant of ColonStars: the pattern ends in \*\* with the colon forgotten
ColonStarsNoColon == <<"*", "*">>
\* the literal :\*\* that closes the marker
ColonStars == <<":", "*", "*">>

\* end of the maximal run of \s starting at i
RECURSIVE WsRun(_, _)
WsRun(d, i) ==
    IF i < Len(d) /\ d[i + 1] \in Whitespace THEN WsRun(d, i + 1) ELSE i

\* first offset >= i holding a newline, or len(d): how far '.' can run
RECURSIVE EolFrom(_, _)
EolFrom(d, i) ==
    IF i < Len(d) /\ d[i + 1] # NL THEN EolFrom(d, i + 1) ELSE i

\* '^' with re.MULTILINE
AtLineStart(d, s) == s = 0 \/ d[s] = NL

\* \s*$ after ":**" at c: the greedy run backs off to the last offset where
\* '$' holds (end of text or just before a newline); -1 when there is none
MarkerEnd(d, c) ==
    LET after == c + Len(ColonStars)
        ends == {e \in after..WsRun(d, after) : e = Len(d) \/ d[e + 1] = NL}
    IN  IF ends = {} THEN -1 ELSE SetMax(ends)

\* (?:.*?)\s*:\*\* from r: the lazy '.*?' stops at the first k from which
\* the greedy \s* run lands on ":**" and the tail \s*$ succeeds
ColonPos(d, r) ==
    LET cs == {c \in {WsRun(d, k) : k \in r..EolFrom(d, r)} :
                  SubAt(d, c, ColonStars) /\ MarkerEnd(d, c) # -1}
    IN  IF cs = {} THEN -1 ELSE SetMin(cs)

\* `([^`]+)` opened at q: the closing backtick is the next one, and the
\* group is not empty
CloseTick(d, q) ==
    LET q2 == Find(d, <<BT>>, q + 1)
    IN  IF q2 >= q + 2 THEN q2 ELSE -1

\* opening backticks the prefix \*\*\s*(?:.*?) can reach from the "**" at i
\* and from which the rest of the pattern matches
OpenTicks(d, i) ==
    LET J == WsRun(d, i + 2)
    IN  {q \in J..(EolFrom(d, J) - 1) :
            /\ d[q + 1] = BT
            /\ CloseTick(d, q) # -1
            /\ ColonPos(d, CloseTick(d, q) + 1) # -1}

NoMatch == [found |-> FALSE, start |-> -1, end |-> -1, colon |-> -1, group |-> <<>>]

\* the match anchored at s, or NoMatch
MatchAt(d, s) ==
    IF ~AtLineStart(d, s) THEN NoMatch
    ELSE LET i == WsRun(d, s)
             ticks == OpenTicks(d, i)
         IN  IF ~SubAt(d, i, Stars) \/ ticks = {} THEN NoMatch
             ELSE LET q1 == SetMin(ticks)
                      q2 == CloseTick(d, q1)
                      c == ColonPos(d, q2 + 1)
                  IN  [found |-> TRUE, start |-> s, end |-> MarkerEnd(d, c),
                       colon |-> c, group |-> Slice(d, q1 + 1, q2)]

\* FILENAME_MARKER_REGEX.search(d, pos=pos): leftmost match start >= pos
RECURSIVE RegexSearch(_, _)
RegexSearch(d, pos) ==
    IF pos > Len(d) THEN NoMatch
    ELSE LET m == MatchAt(d, pos)
         IN  IF m.found THEN m ELSE RegexSearch(d, pos + 1)

(***************************************************************************)
(* The locals of one iteration of the while loop of code_extractor         *)
(***************************************************************************)
NoFence == <<>>

\* relative_filepath = group(1).strip().strip('/\\')
NormalizePath(group) == StripChars(Strip(group), Slashes)

\* text.find('\n', start), with len(text) standing in for -1
LineEndFrom(d, start) ==
    LET e == Find(d, <<NL>>, start)
    IN  IF e = -1 THEN Len(d) ELSE e

\* mutant of OpeningFence: `in` written for startswith
OpeningFenceAnywhere(fence_line) ==
    IF Find(fence_line, Backticks, 0) # -1 THEN Backticks
    ELSE IF Find(fence_line, Tildes, 0) # -1 THEN Tildes
    ELSE NoFence

\* opening_fence chosen from the stripped candidate fence line
OpeningFence(fence_line) ==
    IF StartsWith(fence_line, Backticks) THEN Backticks
    ELSE IF StartsWith(fence_line, Tildes) THEN Tildes
    ELSE NoFence

\* closing_fence_str = "\n" + opening_fence
ClosingFenceStr(opening_fence) == <<NL>> \o opening_fence

\* mutant of ClosingFenceIndex: the nearest line start of either fence kind,
\* as find_next_fence would give
ClosingFenceIndexAnyFence(d, opening_fence, code_start_index) ==
    LET a == Find(d, <<NL>> \o Backticks, code_start_index)
        b == Find(d, <<NL>> \o Tildes, code_start_index)
    IN  IF a = -1 THEN b ELSE IF b = -1 \/ a < b THEN a ELSE b

\* closing_fence_index = text.find(closing_fence_str, code_start_index)
ClosingFenceIndex(d, opening_fence, code_start_index) ==
    Find(d, ClosingFenceStr(opening_fence), code_start_index)

\* closing_line_content == opening_fence
IsValidClose(closing_line_content, opening_fence) ==
    closing_line_content = opening_fence

\* code_to_write = text[code_start_index:closing_fence_index].strip()
CodeToWrite(d, code_start_index, closing_fence_index) ==
    Strip(Slice(d, code_start_index, closing_fence_index))

\* current_pos after a block whose closing fence was accepted
AfterBlock(closing_line_end) == closing_line_end

\* current_pos after a potential closing fence that has trailing text
AfterFalsePositive(closing_fence_index) == closing_fence_index + 1

\* mutant of AfterUnclosed: the + 1 forgotten, the cursor stays on the
\* newline that ends the opening fence line
AfterUnclosedAtLineEnd(code_start_index) == code_start_index - 1

\* current_pos after an opening fence that is never closed
AfterUnclosed(code_start_index) == code_start_index

\* mutant of AfterMarker: the cursor is put back on the marker's start
AfterMarkerAtStart(marker_start_pos, marker_end_pos) == marker_start_pos

\* current_pos after a marker that is skipped
AfterMarker(marker_start_pos, marker_end_pos) == marker_end_pos

\* What one iteration hands to the branch it takes.  Fields the branch
\* never computes are -1 / <<>>.
Locals(branch, marker_match, relative_filepath, opening_fence, potential_fence_line_start, code_start_index, closing_fence_index, closing_line_end, code_to_write) ==
    [branch |-> branch,
     marker_start_pos |-> marker_match.start,
     marker_end_pos |-> marker_match.end,
     colon |-> marker_match.colon,
     relative_filepath |-> relative_filepath,
     opening_fence |-> opening_fence,
     potential_fence_line_start |-> potential_fence_line_start,
     code_start_index |-> code_start_index,
     closing_fence_index |-> closing_fence_index,
     closing_line_end |-> closing_line_end,
     code_to_write |-> code_to_write]

\* a potential closing fence was found at closing_fence_index: is its line
\* exactly the opening fence?
FromCandidate(d, marker_match, relative_filepath, opening_fence, potential_fence_line_start, code_start_index, closing_fence_index, closing_line_end) ==
    LET closing_line_start == closing_fence_index + 1
        closing_line_content == Strip(Slice(d, closing_line_start, closing_line_end))
    IN  IF IsValidClose(closing_line_content, opening_fence)
        THEN Locals("Block", marker_match, relative_filepath, opening_fence,
                    potential_fence_line_start, code_start_index,
                    closing_fence_index, closing_line_end,
                    CodeToWrite(d, code_start_index, closing_fence_index))
        ELSE Locals("FalsePositive", marker_match, relative_filepath, opening_fence,
                    potential_fence_line_start, code_start_index,
                    closing_fence_index, closing_line_end, <<>>)

\* an opening fence follows the marker: search its closing fence
FromOpening(d, marker_match, relative_filepath, opening_fence, potential_fence_line_start, code_start_index, closing_fence_index) ==
    IF closing_fence_index = -1
    THEN Locals("NoClosingFence", marker_match, relative_filepath, opening_fence,
                potential_fence_line_start, code_start_index, -1, -1, <<>>)
    ELSE CHOOSE it \in
           { FromCandidate(d, marker_match, relative_filepath, opening_fence,
                           potential_fence_line_start, code_start_index,
                           closing_fence_index, closing_line_end) :
               closing_line_end \in {LineEndFrom(d, closing_fence_index + 1)} } : TRUE

\* the line after the marker's newline has been read: is it an opening
\* fence, with only whitespace between the marker and it?
FromFenceLine(d, marker_match, relative_filepath, potential_fence_line_start, fence_line_end, opening_fence) ==
    LET intervening_text == Slice(d, marker_match.end, potential_fence_line_start)
        code_start_index == fence_line_end + 1
    IN  IF opening_fence # NoFence /\ Strip(intervening_text) = <<>>
        THEN CHOOSE it \in
               { FromOpening(d, marker_match, relative_filepath, opening_fence,
                             potential_fence_line_start, code_start_index,
                             closing_fence_index) :
                   closing_fence_index \in
                     {ClosingFenceIndex(d, opening_fence, code_start_index)} } : TRUE
        ELSE Locals("NoOpeningFence", marker_match, relative_filepath, opening_fence,
                    potential_fence_line_start, -1, -1, -1, <<>>)

\* a marker was found: check its path, find the line after it
FromMarker(d, marker_match, relative_filepath, next_newline_pos) ==
    IF relative_filepath = <<>>
    THEN Locals("EmptyPath", marker_match, <<>>, NoFence, -1, -1, -1, -1, <<>>)
    ELSE IF next_newline_pos = -1
    THEN Locals("NoNewline", marker_match, relative_filepath, NoFence,
                -1, -1, -1, -1, <<>>)
    ELSE CHOOSE it \in
           { FromFenceLine(d, marker_match, relative_filepath,
                           next_newline_pos + 1, fence_line_end,
                           OpeningFence(Strip(Slice(d, next_newline_pos + 1,
                                                    fence_line_end)))) :
               fence_line_end \in {LineEndFrom(d, next_newline_pos + 1)} } : TRUE

\* the marker search of one iteration
FromSearch(d, marker_match) ==
    IF ~marker_match.found
    THEN Locals("NoMarker", NoMatch, <<>>, NoFence, -1, -1, -1, -1, <<>>)
    ELSE CHOOSE it \in
           { FromMarker(d, marker_match, relative_filepath, next_newline_pos) :
               relative_filepath \in {NormalizePath(marker_match.group)},
               next_newline_pos \in {Find(d, <<NL>>, marker_match.end)} } : TRUE

\* Everything one iteration computes from (markdown_content, current_pos),
\* and the branch it takes.  Each local is bound once, in the order the
\* loop body computes it.
Iteration(d, pos) ==
    CHOOSE it \in { FromSearch(d, marker_match) :
                      marker_match \in {RegexSearch(d, pos)} } : TRUE

\* the record the history variable log keeps of one iteration
Event(kind, it, before, after) ==
    [kind |-> kind, before |-> before, after |-> after,
     colon |-> it.colon, marker_end_pos |-> it.marker_end_pos,
     path |-> it.relative_filepath, fence |-> it.opening_fence,
     fence_line_start |-> it.potential_fence_line_start,
     code_start_index |-> it.code_start_index,
     closing_fence_index |-> it.closing_fence_index,
     content |-> it.code_to_write]

(***************************************************************************)
(* Input documents                                                         *)
(***************************************************************************)
\* A document is at most MaxPieces pieces, each a line or a short group of
\* lines, joined by newlines.
MaxPieces == 3

MarkerOf(pre, path, post) ==
    Stars \o pre \o <<BT>> \o path \o <<BT>> \o post \o Stars

\* **`a`:**   ** x `b` x :**   **`/`:**   **`a`**
MarkerA == MarkerOf(<<>>, <<"a">>, <<":">>)
MarkerFlexible == MarkerOf(<<" ", "x", " ">>, <<"b">>, <<" ", "x", " ", ":">>)
MarkerEmptyPath == MarkerOf(<<>>, <<"/">>, <<":">>)
MarkerNoColon == MarkerOf(<<>>, <<"a">>, <<>>)

Blank == <<>>
Text == <<"x">>
FenceInfo == Backticks \o <<"x">>
FenceIndented == <<" ">> \o Backticks
TextThenFence == <<"x">> \o Backticks

Pieces ==
    { <<Blank>>, <<Backticks>>, <<Tildes>>, <<FenceInfo>>,
      <<FenceIndented>>, <<TextThenFence>>,
      <<MarkerFlexible>>, <<MarkerEmptyPath>>, <<MarkerNoColon>>,
      <<MarkerA, Backticks>>,
      <<MarkerA, Backticks, Text>>,
      <<MarkerA, Tildes, Text>>,
      <<MarkerA, Backticks, Text, FenceInfo>>,
      <<Backticks, Text, Backticks>> }

RECURSIVE JoinLines(_)
\* "\n".join(lines)
JoinLines(ls) ==
    IF ls = <<>> THEN <<>>
    ELSE IF Len(ls) = 1 THEN ls[1]
    ELSE ls[1] \o <<NL>> \o JoinLines(Tail(ls))

RECURSIVE Concat(_)
Concat(ps) == IF ps = <<>> THEN <<>> ELSE ps[1] \o Concat(Tail(ps))

\* no lines at all: the place of a piece a shorter document leaves out
NoPiece == <<>>

Documents ==
    { JoinLines(Concat(ps)) : ps \in [1..MaxPieces -> Pieces \cup {NoPiece}] }

(***************************************************************************)
(* code_extractor                                                          *)
(***************************************************************************)
NoFiles == [p \in {} |-> <<>>]

\* the locals of the loop body before the first iteration
NoLocals == Locals("NotStarted", NoMatch, <<>>, NoFence, -1, -1, -1, -1, <<>>)

Init ==
    /\ doc \in Documents
    /\ pc = "start"
    /\ current_pos = 0
    /\ found_files_count = 0
    /\ files = NoFiles
    /\ locals = NoLocals
    /\ log = <<>>

\* os.makedirs(output_dir, exist_ok=True) succeeds
BaseDirOk ==
    /\ pc = "start"
    /\ pc' = "scan"
    /\ UNCHANGED <<doc, current_pos, found_files_count, files, log, locals>>

\* os.makedirs(output_dir) raises OSError: logging.info(..., file=sys.stderr)
\* raises TypeError when INFO records are enabled, else sys.exit(1) runs
BaseDirFail ==
    /\ pc = "start"
    /\ \E info_enabled \in BOOLEAN :
          pc' = IF info_enabled THEN "raised" ELSE "exit"
    /\ UNCHANGED <<doc, current_pos, found_files_count, files, log, locals>>

\* the while condition fails
LoopExit ==
    /\ pc = "scan"
    /\ current_pos >= Len(doc)
    /\ pc' = "done"
    /\ UNCHANGED <<doc, current_pos, found_files_count, files, log, locals>>

\* the while condition holds: the body searches the next marker and works
\* out, without touching anything but its locals, what follows the marker
Search ==
    /\ pc = "scan"
    /\ current_pos < Len(doc)
    /\ locals' = Iteration(doc, current_pos)
    /\ pc' = "body"
    /\ UNCHANGED <<doc, current_pos, found_files_count, files, log>>

\* an iteration that ends the loop with break
Break(kind) ==
    /\ pc' = "done"
    /\ log' = Append(log, Event(kind, locals, current_pos, current_pos))
    /\ UNCHANGED <<doc, current_pos, found_files_count, files, locals>>

\* an iteration that moves the cursor and goes round again, writing nothing
Continue(kind, pos) ==
    /\ pc' = "scan"
    /\ current_pos' = pos
    /\ log' = Append(log, Event(kind, locals, current_pos, pos))
    /\ UNCHANGED <<doc, found_files_count, files, locals>>

\* an iteration in which logging raises TypeError out of code_extractor
Raise(kind) ==
    /\ pc' = "raised"
    /\ log' = Append(log, Event(kind, locals, current_pos, current_pos))
    /\ UNCHANGED <<doc, current_pos, found_files_count, files, locals>>

NoMarker ==
    /\ pc = "body"
    /\ locals.branch = "NoMarker"
    /\ Break("NoMarker")

EmptyPath ==
    /\ pc = "body"
    /\ locals.branch = "EmptyPath"
    /\ Continue("EmptyPath",
                AfterMarker(locals.marker_start_pos, locals.marker_end_pos))

NoNewline ==
    /\ pc = "body"
    /\ locals.branch = "NoNewline"
    /\ Break("NoNewline")

NoOpeningFence ==
    /\ pc = "body"
    /\ locals.branch = "NoOpeningFence"
    /\ Continue("NoOpeningFence",
                AfterMarker(locals.marker_start_pos, locals.marker_end_pos))

NoClosingFence ==
    /\ pc = "body"
    /\ locals.branch = "NoClosingFence"
    /\ Continue("NoClosingFence", AfterUnclosed(locals.code_start_index))

FalsePositive ==
    /\ pc = "body"
    /\ locals.branch = "FalsePositive"
    /\ Continue("FalsePositive", AfterFalsePositive(locals.closing_fence_index))

\* os.makedirs(output_filedir) raises OSError; the handler's
\* logging.info(..., file=sys.stderr) raises TypeError when INFO is enabled
DirFail ==
    /\ pc = "body"
    /\ locals.branch = "Block"
    /\ \E info_enabled \in BOOLEAN :
          IF info_enabled THEN Raise("DirFail")
          ELSE Continue("DirFail", AfterBlock(locals.closing_line_end))

\* open(output_filepath, 'w') and f.write(code_to_write) succeed
SaveFile ==
    /\ pc = "body"
    /\ locals.branch = "Block"
    /\ locals.code_to_write # <<>>
    /\ files' = [p \in DOMAIN files \cup {locals.relative_filepath} |->
                    IF p = locals.relative_filepath THEN locals.code_to_write
                    ELSE files[p]]
    /\ found_files_count' = found_files_count + 1
    /\ current_pos' = AfterBlock(locals.closing_line_end)
    /\ pc' = "scan"
    /\ log' = Append(log, Event("Saved", locals, current_pos,
                                AfterBlock(locals.closing_line_end)))
    /\ UNCHANGED <<doc, locals>>

SkipEmpty ==
    /\ pc = "body"
    /\ locals.branch = "Block"
    /\ locals.code_to_write = <<>>
    /\ Continue("SkipEmpty", AfterBlock(locals.closing_line_end))

\* open(output_filepath, 'w') raises, or it succeeds (the file now exists,
\* empty) and f.write raises; the handler's logging.error(...,
\* file=sys.stderr) raises TypeError unless ERROR records are disabled
WriteFail ==
    /\ pc = "body"
    /\ locals.branch = "Block"
    /\ locals.code_to_write # <<>>
    /\ \E opened \in BOOLEAN :
          files' = IF opened
                   THEN [p \in DOMAIN files \cup {locals.relative_filepath} |->
                           IF p = locals.relative_filepath THEN <<>> ELSE files[p]]
                   ELSE files
    /\ \E error_enabled \in BOOLEAN :
          /\ pc' = IF error_enabled THEN "raised" ELSE "scan"
          /\ current_pos' = IF error_enabled THEN current_pos
                            ELSE AfterBlock(locals.closing_line_end)
          /\ log' = Append(log, Event("WriteFail", locals, current_pos, current_pos'))
    /\ UNCHANGED <<doc, found_files_count, locals>>

Next ==
    \/ BaseDirOk
    \/ BaseDirFail
    \/ LoopExit
    \/ Search
    \/ NoMarker
    \/ EmptyPath
    \/ NoNewline
    \/ NoOpeningFence
    \/ NoClosingFence
    \/ FalsePositive
    \/ DirFail
    \/ SaveFile
    \/ SkipEmpty
    \/ WriteFail

Spec == Init /\ [][Next]_vars

(***************************************************************************)
(* The document seen as lines: the vocabulary of the properties            *)
(***************************************************************************)
RECURSIVE LinesFrom(_, _)
\* the lines of d from offset s on, each as [s |-> start, e |-> end): what
\* d.split("\n") gives, kept as offsets
LinesFrom(d, s) ==
    LET e == EolFrom(d, s)
    IN  IF e = Len(d) THEN <<[s |-> s, e |-> e]>>
        ELSE <<[s |-> s, e |-> e]>> \o LinesFrom(d, e + 1)

Lines(d) == LinesFrom(d, 0)

LineText(d, L, k) == Slice(d, L[k].s, L[k].e)
Trimmed(d, L, k) == Strip(LineText(d, L, k))

\* the line holding offset pos (a newline belongs to the line it ends)
LineOf(L, pos) == CHOOSE k \in 1..Len(L) : L[k].s <= pos /\ pos <= L[k].e

\* the 3-symbol run a trimmed line starts with, <<>> when it is no fence
FenceRun(t) ==
    IF SubAt(t, 0, <<BT, BT, BT>>) THEN <<BT, BT, BT>>
    ELSE IF SubAt(t, 0, <<"~", "~", "~">>) THEN <<"~", "~", "~">>
    ELSE <<>>

OtherRun(f) == IF f = <<BT, BT, BT>> THEN <<"~", "~", "~">> ELSE <<BT, BT, BT>>

RECURSIVE FirstNonBlankFrom(_, _, _)
\* the first line from line k on that is not whitespace-only, 0 when none
FirstNonBlankFrom(d, L, k) ==
    IF k > Len(L) THEN 0
    ELSE IF Trimmed(d, L, k) # <<>> THEN k
    ELSE FirstNonBlankFrom(d, L, k + 1)

\* the first line after line m that is not whitespace-only, 0 when none
FirstNonBlankAfter(d, L, m) == FirstNonBlankFrom(d, L, m + 1)

\* the opening fence line of the marker on line m: the first non-blank line
\* after it, when its trimmed text starts with a fence run; else 0
OpenLine(d, L, m) ==
    LET o == FirstNonBlankAfter(d, L, m)
    IN  IF o # 0 /\ FenceRun(Trimmed(d, L, o)) # <<>> THEN o ELSE 0

RECURSIVE FirstFenceLineFrom(_, _, _, _)
\* the first line from line k on whose trimmed text starts with run f, else 0
FirstFenceLineFrom(d, L, k, f) ==
    IF k > Len(L) THEN 0
    ELSE IF SubAt(Trimmed(d, L, k), 0, f) THEN k
    ELSE FirstFenceLineFrom(d, L, k + 1, f)

\* the first line after line o whose trimmed text starts with run f, else 0
FirstFenceLineAfter(d, L, o, f) == FirstFenceLineFrom(d, L, o + 1, f)

RECURSIVE FirstExactLineFrom(_, _, _, _)
\* the first line from line k on that is exactly the run f, else 0
FirstExactLineFrom(d, L, k, f) ==
    IF k > Len(L) THEN 0
    ELSE IF LineText(d, L, k) = f THEN k
    ELSE FirstExactLineFrom(d, L, k + 1, f)

\* the first line after line o that is exactly the run f, else 0
FirstExactLineAfter(d, L, o, f) == FirstExactLineFrom(d, L, o + 1, f)

\* the text from the end of line o to the start of line c, trimmed
Between(d, L, o, c) == Strip(Slice(d, L[o].e, L[c].s))

\* the first offset after line k and its newline
OffsetAfterLine(L, k) == L[k].e + 1

\* the iteration found a marker / a marker with a non-empty normalized path
HasMarker(e) == e.kind # "NoMarker"
HasPath(e) == e.kind \notin {"NoMarker", "EmptyPath"}
\* the file system refused the directory or the file
FsFailed(e) == e.kind \in {"DirFail", "WriteFail"}
NoFsFailure == \A i \in 1..Len(log) : ~FsFailed(log[i])
\* the iteration accepted a closing fence
Closed(e) == e.kind \in {"Saved", "SkipEmpty", "DirFail", "WriteFail"}

\* the line of the marker iteration e found (the line of its ":**")
MarkerLine(L, e) == LineOf(L, e.colon)

\* the iteration a property looks at: the one that has just ended.  Each
\* iteration is the latest one in the state it leads to, so a property of
\* the latest iteration that holds in every reachable state holds of every
\* iteration.  (Search appends nothing: in the state it leads to, the latest
\* iteration has been looked at already.)
Latest == IF log = <<>> \/ pc = "body" THEN {} ELSE {log[Len(log)]}

\* the markers with a non-empty path among the iterations es, each with
\* the line o of its opening fence (when its next non-blank line is one)
\* and the run f that line starts with
Opened(d, L, es) ==
    { [e |-> c.e, o |-> c.o, f |-> FenceRun(Trimmed(d, L, c.o))] :
        c \in { b \in { [e |-> x, o |-> OpenLine(d, L, MarkerLine(L, x))] :
                          x \in {y \in es : HasPath(y)} } : b.o # 0 } }

(***************************************************************************)
(* C1                                                                      *)
(***************************************************************************)
\* C1 (as claimed): a marker with a non-empty path whose next non-blank
\* line is an opening fence, and whose first later line starting (trimmed)
\* with the same run is exactly that run (trimmed), with non-empty trimmed
\* text in between, gets exactly that text written to its path (the file
\* system permitting).
C1_AsClaimed ==
    \A e \in Latest : \A L \in {Lines(doc)} : \A b \in Opened(doc, L, {e}) :
      \A c \in {FirstFenceLineAfter(doc, L, b.o, b.f)} :
        (/\ ~FsFailed(b.e)
         /\ c # 0
         /\ Trimmed(doc, L, c) = b.f
         /\ Between(doc, L, b.o, c) # <<>>)
        => (/\ b.e.kind = "Saved"
            /\ b.e.content = Between(doc, L, b.o, c)
            /\ files[b.e.path] = Between(doc, L, b.o, c))

(***************************************************************************)
(* C2                                                                      *)
(***************************************************************************)
\* line k alone is a marker with a non-empty normalized path
IsMarkerLine(d, L, k) ==
    \E m \in {MatchAt(LineText(d, L, k), 0)} :
      m.found /\ NormalizePath(m.group) # <<>>

Malformed(e) == e.kind \in {"NoOpeningFence", "NoClosingFence", "FalsePositive"}

\* the last line of the malformed construct iteration e met
MalformedLine(L, e) ==
    IF e.kind = "NoOpeningFence" THEN MarkerLine(L, e)
    ELSE IF e.kind = "NoClosingFence" THEN LineOf(L, e.fence_line_start)
    ELSE LineOf(L, e.closing_fence_index + 1)

\* the marker lines with a well-formed block: opening fence on the next
\* non-blank line, a later line exactly equal to the same run, non-empty
\* text in between
WellFormed(d, L) ==
    { b \in { [k |-> k, o |-> OpenLine(d, L, k),
               c |-> IF OpenLine(d, L, k) = 0 THEN 0
                     ELSE FirstExactLineAfter(d, L, OpenLine(d, L, k),
                            FenceRun(Trimmed(d, L, OpenLine(d, L, k))))] :
              k \in {j \in 1..Len(L) : IsMarkerLine(d, L, j)} } :
        b.o # 0 /\ b.c # 0 /\ Between(d, L, b.o, b.c) # <<>> }

\* C2 (as claimed): once the scan has ended normally, every marker line
\* that starts after a malformed construct the scan met (a marker without a
\* fence, an opening fence without a closing fence, a false-positive closing
\* line) and that has a well-formed block has had the text of that block
\* written for it.
C2_AsClaimed ==
    (pc = "done" /\ NoFsFailure /\ \E i \in 1..Len(log) : Malformed(log[i])) =>
    \A L \in {Lines(doc)} : \A b \in WellFormed(doc, L) :
      (\E i \in 1..Len(log) : Malformed(log[i]) /\ b.k > MalformedLine(L, log[i]))
      => \E j \in 1..Len(log) :
            /\ log[j].kind = "Saved"
            /\ MarkerLine(L, log[j]) = b.k
            /\ log[j].content = Between(doc, L, b.o, b.c)

(***************************************************************************)
(* C3                                                                      *)
(***************************************************************************)
\* C3 (as claimed): a marker whose next non-blank line X is followed by an
\* opening fence and a matching closing fence -- the document obtained by
\* inserting X between a marker and its block -- gets no file, whatever the
\* non-blank line X is.
C3_AsClaimed ==
    \A e \in {x \in Latest : HasPath(x)} : \A L \in {Lines(doc)} :
      \A x \in {FirstNonBlankAfter(doc, L, MarkerLine(L, e))} :
        (/\ x # 0
         /\ \E o \in {OpenLine(doc, L, x)} :
              /\ o # 0
              /\ \E c \in (o + 1)..Len(L) :
                   Trimmed(doc, L, c) = FenceRun(Trimmed(doc, L, o)))
        => e.kind # "Saved"

\* C3 (amended): a marker whose next non-blank line does not itself start
\* (trimmed) with ``` or ~~~ gets no file: the iteration takes the
\* no-opening-fence branch and only moves the cursor past the marker.
C3_Adjacency ==
    \A e \in {x \in Latest : HasPath(x)} : \A L \in {Lines(doc)} :
      \A x \in {FirstNonBlankAfter(doc, L, MarkerLine(L, e))} :
        (x # 0 /\ FenceRun(Trimmed(doc, L, x)) = <<>>)
        => (/\ e.kind = "NoOpeningFence"
            /\ e.after = e.marker_end_pos
            /\ current_pos = e.marker_end_pos)

\* a marker, a non-blank line that is no fence, then a complete fenced
\* block: the marker was skipped
C3_Witness ==
    \E e \in Latest : \E L \in {Lines(doc)} :
      /\ e.kind = "NoOpeningFence"
      /\ \E x \in {FirstNonBlankAfter(doc, L, MarkerLine(L, e))} :
           /\ x # 0
           /\ FenceRun(Trimmed(doc, L, x)) = <<>>
           /\ \E o \in {OpenLine(doc, L, x)} :
                /\ o # 0
                /\ FirstExactLineAfter(doc, L, o, FenceRun(Trimmed(doc, L, o))) # 0

(***************************************************************************)
(* C4                                                                      *)
(***************************************************************************)
\* C4 (as claimed): when only whitespace (or nothing) lies between a
\* marker's opening fence line and the first later line that is (trimmed)
\* exactly the same run, no file is written for that marker.
C4_AsClaimed ==
    \A e \in Latest : \A L \in {Lines(doc)} : \A b \in Opened(doc, L, {e}) :
      \A c \in {FirstFenceLineAfter(doc, L, b.o, b.f)} :
        (/\ c # 0
         /\ Trimmed(doc, L, c) = b.f
         /\ Between(doc, L, b.o, c) = <<>>)
        => b.e.kind # "Saved"

(***************************************************************************)
(* C5                                                                      *)
(***************************************************************************)
\* C5: (a) a block that was closed was closed by a line of the kind of its
\* opening fence; (b) when no later line starts (trimmed) with the opening
\* run, whatever lines of the other kind follow, the block is not closed and
\* nothing is written; (c) when a line of the other kind comes before the
\* first line of the opening kind, and that line is exactly the opening run,
\* the block is closed there and not at the line of the other kind.
C5_FenceKind ==
    \A e \in Latest : \A L \in {Lines(doc)} : \A b \in Opened(doc, L, {e}) :
      \A c \in {FirstFenceLineAfter(doc, L, b.o, b.f)} :
        /\ Closed(b.e) =>
             FenceRun(Trimmed(doc, L, LineOf(L, b.e.closing_fence_index + 1))) = b.f
        /\ c = 0 => (b.e.kind = "NoClosingFence" /\ b.e.content = <<>>)
        /\ \A g \in {FirstFenceLineAfter(doc, L, b.o, OtherRun(b.f))} :
             (c # 0 /\ g # 0 /\ g < c /\ LineText(doc, L, c) = b.f) =>
               (Closed(b.e) /\ LineOf(L, b.e.closing_fence_index + 1) = c)

\* a ``` block holding a ~~~ line was closed at the later ``` line
C5_Witness ==
    \E e \in Latest : \E L \in {Lines(doc)} : \E b \in Opened(doc, L, {e}) :
      /\ b.f = <<BT, BT, BT>>
      /\ b.e.kind = "Saved"
      /\ \E g \in {FirstFenceLineAfter(doc, L, b.o, <<"~", "~", "~">>)} :
           g # 0 /\ g < LineOf(L, b.e.closing_fence_index + 1)

(***************************************************************************)
(* C6                                                                      *)
(***************************************************************************)
\* C6: when no line after a marker's opening fence line starts with the
\* opening run, the iteration writes nothing, does not raise, and leaves the
\* cursor on the first offset after the opening fence line.
C6_Unterminated ==
    \A e \in Latest : \A L \in {Lines(doc)} : \A b \in Opened(doc, L, {e}) :
      (\A k \in (b.o + 1)..Len(L) : ~SubAt(LineText(doc, L, k), 0, b.f))
      => (/\ b.e.kind = "NoClosingFence"
          /\ b.e.content = <<>>
          /\ pc # "raised"
          /\ current_pos = OffsetAfterLine(L, b.o))

\* an unterminated block one of whose content lines ends with the run
C6_Witness ==
    \E e \in Latest : \E L \in {Lines(doc)} : \E b \in Opened(doc, L, {e}) :
      /\ b.e.kind = "NoClosingFence"
      /\ \E k \in (b.o + 1)..Len(L) : LineText(doc, L, k) = <<"x", BT, BT, BT>>

(***************************************************************************)
(* C7                                                                      *)
(***************************************************************************)
\* C7 (as claimed): an iteration in which the directory or the file cannot
\* be written does not make code_extractor raise.
C7_AsClaimed ==
    \A e \in Latest : FsFailed(e) => pc # "raised"

(***************************************************************************)
(* C8                                                                      *)
(***************************************************************************)
TickPositions(t) == {i \in 1..Len(t) : t[i] = BT}
EndsWith(t, p) == Len(t) >= Len(p) /\ SubAt(t, Len(t) - Len(p), p)

\* trimmed, the line starts with ** and ends with ** and holds exactly one
\* backtick-enclosed non-empty text
MarkerShaped(t) ==
    \E u \in {Strip(t)} :
        /\ Len(u) >= 4
        /\ SubAt(u, 0, <<"*", "*">>)
        /\ EndsWith(u, <<"*", "*">>)
        /\ Cardinality(TickPositions(u)) = 2
        /\ SetMax(TickPositions(u)) - SetMin(TickPositions(u)) >= 2

\* the text inside the backticks of a marker-shaped line
InsideTicks(t) ==
    SubSeq(t, SetMin(TickPositions(t)) + 1, SetMax(TickPositions(t)) - 1)

\* the pattern anchored at the start of line k matches within that line and
\* captures the text inside the backticks
RecognisedAt(d, L, k) ==
    \E m \in {MatchAt(d, L[k].s)} :
        /\ m.found
        /\ m.group = InsideTicks(LineText(d, L, k))
        /\ LineOf(L, m.colon) = k

\* C8 (as claimed): every marker-shaped line is recognised, with or without
\* a colon before the closing **.
C8_AsClaimed ==
    \A L \in {Lines(doc)} : \A k \in 1..Len(L) :
      MarkerShaped(LineText(doc, L, k)) => RecognisedAt(doc, L, k)

\* C8 (amended): a marker-shaped line is recognised, with the text inside
\* the backticks as the captured path, when a colon stands immediately
\* before the closing **; the same line without the colon does not match
\* the marker pattern.  (A property of the pattern and the document alone:
\* doc never changes, so it is stated of the document the run starts with.)
C8_ColonRequired ==
    pc = "start" =>
    \A L \in {Lines(doc)} : \A k \in 1..Len(L) :
      \A t \in {LineText(doc, L, k)} :
        MarkerShaped(t) =>
          IF EndsWith(Strip(t), <<":", "*", "*">>)
          THEN RecognisedAt(doc, L, k)
          ELSE ~MatchAt(t, 0).found

\* the scan took a marker-shaped line with text around the backticks as a
\* marker, in a document that also holds a marker-shaped line without the
\* colon
C8_Witness ==
    \E L \in {Lines(doc)} :
      /\ \E e \in Latest :
            /\ HasMarker(e)
            /\ MarkerShaped(LineText(doc, L, MarkerLine(L, e)))
            /\ e.path = <<"b">>
      /\ \E k \in 1..Len(L) :
            /\ MarkerShaped(LineText(doc, L, k))
            /\ ~EndsWith(Strip(LineText(doc, L, k)), <<":", "*", "*">>)

(***************************************************************************)
(* C9                                                                      *)
(***************************************************************************)
\* C9 (as claimed): once the scan has ended normally, a block in which a
\* false-positive closing line was met and a later line is exactly the
\* opening run has been written, with the text between the opening fence
\* line and that later line.
C9_AsClaimed ==
    (pc = "done" /\ NoFsFailure) =>
    \A L \in {Lines(doc)} : \A i \in 1..Len(log) :
      \A e \in {x \in {log[i]} : x.kind = "FalsePositive"} :
        \A c \in {FirstExactLineAfter(doc, L, LineOf(L, e.closing_fence_index + 1),
                                      e.fence)} :
          c # 0 =>
            \E j \in 1..Len(log) :
                /\ log[j].kind = "Saved"
                /\ log[j].colon = e.colon
                /\ log[j].content =
                     Between(doc, L, OpenLine(doc, L, MarkerLine(L, e)), c)

(***************************************************************************)
(* C10                                                                     *)
(***************************************************************************)
\* C10: every iteration after which the loop goes on leaves current_pos
\* strictly greater than it found it, and never beyond len + 1; and the loop
\* never makes more iterations than the document has characters.  The
\* cursor is a variant of the loop, which therefore ends.
C10_Advance ==
    /\ [][(pc = "body" /\ pc' = "scan") =>
             (current_pos < current_pos' /\ current_pos' <= Len(doc) + 1)]_vars
    /\ [](Len(log) <= Len(doc))

\* a scan that went through three iterations or more and has ended
C10_Witness == pc = "done" /\ Len(log) >= 3

====
